---- MODULE Spec2Model ----
(***************************************************************************)
(* Model of docker-restart (src/main.go): the health loop of main, the     *)
(* runtime client (getContainers, restartContainer), restart, addMetric,   *)
(* notify, init and the metrics server goroutine.                          *)
(*                                                                         *)
(* Strings that the code slices or concatenates are sequences of           *)
(* one-character strings (the container id) or tuples of their parts (the  *)
(* request URLs, the formatted messages).  The timestamp t of main.go:131  *)
(* is left out of the messages: nothing the program decides depends on it. *)
(* Everything the program sends or prints in the current cycle is kept, in *)
(* order, in events; a new listing query starts a new cycle and a new      *)
(* events sequence.                                                        *)
(***************************************************************************)
EXTENDS Integers, Sequences, FiniteSets, TLC

VARIABLES
    env,         \* the environment of the process
    cfg,         \* Client.cfg: the configuration read by InitConfig
    pc,          \* position of the main goroutine; "blocked": waiting without
                 \* a deadline in a call whose peer never answers
    proc,        \* "running", or how the process ended: "panic", "fatal"
    srv,         \* the serveMetrics goroutine: "off", "starting", "listening"
    ctrCreated,  \* Client.ctr has been set by init
    ctr,         \* the counter instrument: attribute set -> value
    containers,  \* the slice returned by getContainers in this cycle
    i,           \* 1-based position of the range loop of main in containers
    id,          \* the local id of main (c.Id[0:12]) for the record at i
    err,         \* the error returned by restartContainer for the record at i
    resp,        \* the runtime's answer to the restart command of the record at i
    events,      \* what this cycle has sent and printed so far, in order
    listed,      \* number of records the listing queries have returned so far
    restarted,   \* number of restart commands that have returned so far
    scraped      \* the series in the last response of the metrics endpoint

vars == <<env, cfg, pc, proc, srv, ctrCreated, ctr, containers, i, id, err, resp, events, listed,
          restarted, scraped>>

----------------------------------------------------------------------------
(* Bounds of the model *)

(* The listing queries of one run return at most MaxListed records in all. *)
MaxListed == 2

----------------------------------------------------------------------------
(* Constants of main.go *)

NULL == "null"
RESTARTING == "restarting"
BASE_URL == "http://unix/containers/"
FILTER == "json?filters="
COMMAND == "/restart?t="
CONTENT_TYPE == "application/json"
IdPrefixLen == 12
STOP_TIMEOUT_LABEL == "autoheal.stop.timeout"
RESULT_FAILED == "Failed to restart the container"
RESULT_SUCCESS == "Successfully restarted the container"

(* The format strings of the Printf and notify calls, without the leading  *)
(* timestamp verb.                                                         *)
FMT_LIST_FAILED == "Failed to list containers. %s"
FMT_NONAME == "Container name of (%s) is null, which implies container does not exist - don't restart."
FMT_RESTARTING == "Container %s (%s) found to be restarting - don't restart."
FMT_UNHEALTHY == "Container %s (%s) found to be unhealthy - Restarting container now."
FMT_FAILED == "Container %s (%s) found to be unhealthy. Failed to restart the container."
FMT_SUCCESS == "Container %s (%s) found to be unhealthy. Successfully restarted the container."
FMT_WEBHOOK_FAILED == "Failed to call webhook. %s"

----------------------------------------------------------------------------
(* Inputs: the environment, the runtime's answers, the webhook's answers *)

(* The environment: a function from the names that are set to their        *)
(* values.  os.Getenv gives "" for a name that is not set (main.go:76).    *)
Getenv(e, name) == IF name \in DOMAIN e THEN e[name] ELSE ""

(* The environments of the health loop: the defaults of main.go:86-95 and  *)
(* three more.  Between them the webhook URL and the metrics switch take   *)
(* each of their two values together with each value of every other        *)
(* option; a request timeout of 0 comes with the label filter "critical".  *)
Envs ==
    { <<>>,
      ("AUTOHEAL_CONTAINER_LABEL" :> "critical") @@ ("WEBHOOK_URL" :> "http://hook")
          @@ ("CURL_TIMEOUT" :> "0"),
      ("WEBHOOK_URL" :> "http://hook") @@ ("METRICS_ENABLED" :> "false"),
      ("AUTOHEAL_CONTAINER_LABEL" :> "critical") @@ ("METRICS_ENABLED" :> "false")
          @@ ("CURL_TIMEOUT" :> "0") }

(* The environments of configuration loading.  The three duration options  *)
(* are each unset or set to one of DurationTexts, in every combination;    *)
(* the seven string options are all unset, all set to "", or all set to a  *)
(* value of their own.                                                     *)
DurationNames == {"AUTOHEAL_INTERVAL", "AUTOHEAL_START_PERIOD", "CURL_TIMEOUT"}
StringNames == {"DOCKER_SOCK", "AUTOHEAL_CONTAINER_LABEL", "AUTOHEAL_DEFAULT_STOP_TIMEOUT",
                "WEBHOOK_URL", "WEBHOOK_KEY", "METRICS_PORT", "METRICS_ENABLED"}
DurationTexts ==
    {"", "0", "7", "007", "-5", "abc", "9223372036", "9223372037", "9223372036854775808"}
DurationEnvs == UNION {[S -> DurationTexts] : S \in SUBSET DurationNames}
StringEnvs ==
    { <<>>,
      [n \in StringNames |-> ""],
      [n \in StringNames |-> CASE n = "DOCKER_SOCK" -> "/run/docker.sock"
                               [] n = "AUTOHEAL_CONTAINER_LABEL" -> "critical"
                               [] n = "AUTOHEAL_DEFAULT_STOP_TIMEOUT" -> "20"
                               [] n = "WEBHOOK_URL" -> "http://hook"
                               [] n = "WEBHOOK_KEY" -> "content"
                               [] n = "METRICS_PORT" -> "9090"
                               [] n = "METRICS_ENABLED" -> "false"] }
EnvsWide == {d @@ t : d \in DurationEnvs, t \in StringEnvs}

IdShort == <<"a","b","c","d","e","f","0","1","2","3","4">>
IdLong  == <<"a","b","c","d","e","f","0","1","2","3","4","5","6">>

Ids == {IdShort, IdLong}
NameSeqs == {<<>>, <<NULL>>, <<"/web">>}
States == {"unhealthy", RESTARTING}
NoLabels == [k \in {} |-> ""]
LabelMaps == {NoLabels, [k \in {STOP_TIMEOUT_LABEL} |-> ""], [k \in {STOP_TIMEOUT_LABEL} |-> "5"]}


RECURSIVE SeqsUpTo(_, _)
SeqsUpTo(S, n) ==
    IF n = 0 THEN {<<>>}
    ELSE LET shorter == SeqsUpTo(S, n - 1)
         IN  shorter \cup {Append(s, x) : s \in {t \in shorter : Len(t) = n - 1}, x \in S}

ListErrors == {"transport", "read", "decode"}
RestartResults == {"transport_error", "204", "404", "500"}
WebhookResults == {"transport_error", "200"}

----------------------------------------------------------------------------
(* Pure helpers *)

(* Integers of 64 bits.  An integer is its sign and the decimal digits of  *)
(* its magnitude, most significant first and without leading zeros (zero   *)
(* is <<0>>, never negative): the numbers of getEnvDuration do not fit the *)
(* integers of the model checker.                                          *)
DecimalDigits == <<"0", "1", "2", "3", "4", "5", "6", "7", "8", "9">>
IsDigit(ch) == \E d \in 1 .. 10 : DecimalDigits[d] = ch
DigitVal(ch) == (CHOOSE d \in 1 .. 10 : DecimalDigits[d] = ch) - 1

(* 2^63 and 2^64: int and time.Duration are int64. *)
TwoTo63 == <<9,2,2,3,3,7,2,0,3,6,8,5,4,7,7,5,8,0,8>>
TwoTo64 == <<1,8,4,4,6,7,4,4,0,7,3,7,0,9,5,5,1,6,1,6>>

(* The operators below take their arguments by value: the CHOOSE from a    *)
(* one-element set only makes the argument be computed once, before use.   *)

(* The digits without their leading zeros. *)
Norm(m) ==
    IF \A k \in 1 .. Len(m) : m[k] = 0 THEN <<0>>
    ELSE LET first == CHOOSE k \in 1 .. Len(m) :
                          m[k] # 0 /\ \A j \in 1 .. k - 1 : m[j] = 0
         IN  SubSeq(m, first, Len(m))

(* -1, 0 or 1 as a < b, a = b or a > b, for digits of the same length. *)
CmpDigits(a, b) ==
    IF \A k \in 1 .. Len(a) : a[k] = b[k] THEN 0
    ELSE LET first == CHOOSE k \in 1 .. Len(a) :
                          a[k] # b[k] /\ \A j \in 1 .. k - 1 : a[j] = b[j]
         IN  IF a[first] < b[first] THEN -1 ELSE 1

(* -1, 0 or 1 as a < b, a = b or a > b. *)
Cmp(a, b) ==
    IF Len(a) < Len(b) THEN -1
    ELSE IF Len(a) > Len(b) THEN 1
    ELSE CmpDigits(a, b)

PadLeft(b, n) == [k \in 1 .. n |-> IF k <= n - Len(b) THEN 0 ELSE b[k - (n - Len(b))]]

(* a - b digit by digit, for digits of the same length and a >= b: a digit *)
(* borrows when the digits below it are less in a than in b.               *)
SubDigits(a, b) ==
    LET n == Len(a)
    IN  [k \in 1 .. n |->
            LET borrow == IF CmpDigits(SubSeq(a, k + 1, n), SubSeq(b, k + 1, n)) < 0
                          THEN 1 ELSE 0
                d      == a[k] - b[k] - borrow
            IN  IF d < 0 THEN d + 10 ELSE d]

(* a - b for a >= b *)
Sub(a, b) == Norm(SubDigits(a, PadLeft(b, Len(a))))

RECURSIVE Reduce(_, _)
Reduce(r, m) ==
    CHOOSE res \in {IF Cmp(x, m) < 0 THEN x ELSE Reduce(Sub(x, m), m) : x \in {r}} : TRUE

(* The first k digits of a, mod m, by long division. *)
RECURSIVE ModPrefix(_, _, _)
ModPrefix(a, k, m) ==
    IF k = 0 THEN <<0>>
    ELSE Reduce(Norm(Append(ModPrefix(a, k - 1, m), a[k])), m)

(* a mod m *)
Mod(a, m) == CHOOSE res \in {ModPrefix(x, Len(x), m) : x \in {a}} : TRUE

Int64(neg, mag) == [neg |-> neg /\ mag # <<0>>, mag |-> mag]

(* The int64 that holds the low 64 bits of the integer (neg, mag): what an *)
(* arithmetic operation of Go leaves when its result overflows.            *)
Wrap64(neg, mag) ==
    CHOOSE res \in
        { LET u == IF neg /\ low # <<0>> THEN Sub(TwoTo64, low) ELSE low
          IN  IF Cmp(u, TwoTo63) >= 0
              THEN Int64(TRUE, Sub(TwoTo64, u))
              ELSE Int64(FALSE, u) : low \in {Mod(mag, TwoTo64)} } : TRUE

(* time.Duration(t) * time.Second (main.go:72): t times 10^9 nanoseconds,  *)
(* in 64 bits.                                                             *)
Seconds(t) ==
    CHOOSE res \in
        { Wrap64(x.neg, IF x.mag = <<0>> THEN <<0>> ELSE x.mag \o <<0,0,0,0,0,0,0,0,0>>)
              : x \in {t} } : TRUE

(* The bytes of the texts that the environments and the defaults of the    *)
(* model give to Atoi: a string of the model cannot be taken apart.        *)
Bytes(s) ==
    CASE s = "0"   -> <<"0">>
      [] s = "5"   -> <<"5">>
      [] s = "7"   -> <<"7">>
      [] s = "30"  -> <<"3", "0">>
      [] s = "007" -> <<"0", "0", "7">>
      [] s = "-5"  -> <<"-", "5">>
      [] s = "abc" -> <<"a", "b", "c">>
      [] s = "9223372036" -> <<"9","2","2","3","3","7","2","0","3","6">>
      [] s = "9223372037" -> <<"9","2","2","3","3","7","2","0","3","7">>
      [] s = "9223372036854775808" ->
             <<"9","2","2","3","3","7","2","0","3","6","8","5","4","7","7","5","8","0","8">>
      [] s = ""    -> <<>>

(* fmt.Sprint(defaultVal) of main.go:66, for the defaults of main.go:88-91 *)
Sprint(n) == CASE n = 0 -> "0" [] n = 5 -> "5" [] n = 30 -> "30"

(* The int of a default of main.go:88-91. *)
IntOf(n) == Int64(FALSE, [k \in 1 .. Len(Bytes(Sprint(n))) |-> DigitVal(Bytes(Sprint(n))[k])])

(* strconv.Atoi (main.go:67): an optional sign and one or more decimal     *)
(* digits, within the range of int; anything else is an error.             *)
Atoi(s) ==
    LET signed == IF Len(s) >= 1 THEN s[1] \in {"+", "-"} ELSE FALSE
        body   == IF signed THEN Tail(s) ELSE s
        neg    == IF signed THEN s[1] = "-" ELSE FALSE
    IN  IF Len(body) = 0 \/ \E k \in 1 .. Len(body) : ~IsDigit(body[k])
        THEN [err |-> "syntax", val |-> Int64(FALSE, <<0>>)]
        ELSE LET mag == Norm([k \in 1 .. Len(body) |-> DigitVal(body[k])])
             IN  IF Cmp(mag, TwoTo63) > 0 \/ (~neg /\ Cmp(mag, TwoTo63) = 0)
                 THEN [err |-> "range", val |-> Int64(FALSE, <<0>>)]
                 ELSE [err |-> "", val |-> Int64(neg, mag)]

(* getEnv, main.go:75-82 *)
getEnv(e, name, defaultVal) ==
    LET val == Getenv(e, name)
    IN  IF val = "" THEN defaultVal ELSE val

(* getEnvDuration, main.go:65-73 *)
getEnvDuration(e, name, defaultVal) ==
    LET val == getEnv(e, name, Sprint(defaultVal))
        r   == Atoi(Bytes(val))
        t   == IF r.err # "" THEN IntOf(defaultVal) ELSE r.val
    IN  Seconds(t)

(* InitConfig, main.go:84-99 *)
InitConfig(e) ==
    [ DockerSocks        |-> getEnv(e, "DOCKER_SOCK", "/var/run/docker.sock"),
      ContainerLabel     |-> getEnv(e, "AUTOHEAL_CONTAINER_LABEL", "all"),
      Interval           |-> getEnvDuration(e, "AUTOHEAL_INTERVAL", 5),
      StartPeriod        |-> getEnvDuration(e, "AUTOHEAL_START_PERIOD", 0),
      DefaultStopTimeout |-> getEnv(e, "AUTOHEAL_DEFAULT_STOP_TIMEOUT", "10"),
      RequestTimeout     |-> getEnvDuration(e, "CURL_TIMEOUT", 30),
      WebHookUrl         |-> getEnv(e, "WEBHOOK_URL", ""),
      WebHookKey         |-> getEnv(e, "WEBHOOK_KEY", "text"),
      MetricsPort        |-> getEnv(e, "METRICS_PORT", "2333"),
      MetricsEnabled     |-> getEnv(e, "METRICS_ENABLED", "true") ]

(* The configuration before NewClient has run. *)
NoConfig == [loaded |-> FALSE]

(* http.Client.Timeout (main.go:107, 115): a request has a deadline only   *)
(* when the timeout is positive; zero or less means no timeout.            *)
HasDeadline(timeout) == ~timeout.neg /\ timeout.mag # <<0>>

(* Go's map index: the zero value "" for a missing key (main.go:153). *)
LabelOf(c, key) == IF key \in DOMAIN c.Labels THEN c.Labels[key] ELSE ""

(* c.Id[0:12] of main.go:132 is defined only for ids of at least 12 bytes;  *)
(* on a shorter id the slice expression panics.                             *)
SliceInRange(c) == Len(c.Id) >= IdPrefixLen

ShortId(c) == SubSeq(c.Id, 1, IdPrefixLen)

(* main.go:134 *)
NoName(c) == IF Len(c.Names) = 0 THEN TRUE ELSE c.Names[1] = NULL

(* Mutant of IsRestarting: the state is compared with the wrong literal. *)
IsRestartingWrongLiteral(c) == c.State = "restart"

(* main.go:139 *)
IsRestarting(c) == c.State = RESTARTING

(* type Container (main.go:50-55).  The stop-timeout label is read only on  *)
(* the restart path (main.go:153), so the listings vary it only on the     *)
(* records that reach that path.                                           *)
Container ==
    {c \in [Id : Ids, Names : NameSeqs, State : States, Labels : LabelMaps] :
        (Len(c.Id) < IdPrefixLen \/ c.Names = <<>> \/ c.Names = <<NULL>> \/ c.State = RESTARTING)
            => c.Labels = NoLabels}

(* The decoded answers of the listing query (main.go:258-263). *)
Listings(n) == SeqsUpTo(Container, n)

(* restartContainer, main.go:229-232: the timeout put in the URL. *)
StopTimeout(timeout) == IF timeout # "" THEN timeout ELSE cfg.DefaultStopTimeout

(* restartContainer, main.go:233: BASE_URL+id+COMMAND+t *)
RestartUrl(cid, timeout) == <<BASE_URL, cid, COMMAND, StopTimeout(timeout)>>

(* Mutant of Filters: the label filter is added whatever its value. *)
FiltersLabelAlways ==
    [health |-> <<"unhealthy">>, label |-> << <<cfg.ContainerLabel, "=true">> >>]

(* getContainers, main.go:238-241: the filter object. *)
Filters ==
    IF cfg.ContainerLabel # "all"
    THEN [health |-> <<"unhealthy">>, label |-> << <<cfg.ContainerLabel, "=true">> >>]
    ELSE [health |-> <<"unhealthy">>]

(* Mutant of ResultText: both branches of restart pass the success text. *)
ResultTextAlwaysSuccess(e) == RESULT_SUCCESS

(* restart, main.go:153-163: the result text and the format of the outcome. *)
ResultText(e) == IF e THEN RESULT_FAILED ELSE RESULT_SUCCESS
ResultFormat(e) == IF e THEN FMT_FAILED ELSE FMT_SUCCESS

(* Mutant of RestartErr: a status other than 204 counts as a failure. *)
RestartErrOnStatus(res) == res # "204"

(* restartContainer returns the error of PostForm alone (main.go:233-234):  *)
(* the response and its status code are dropped.                            *)
RestartErr(res) == res = "transport_error"

(* Mutant of CounterAdd: the series is set to n. *)
CounterSet(c, attrs, n) ==
    [a \in DOMAIN c \cup {attrs} |-> IF a = attrs THEN n ELSE c[a]]

(* Counter.Add(ctx, n, attrs): the series of attrs goes up by n. *)
CounterAdd(c, attrs, n) ==
    IF attrs \in DOMAIN c
    THEN [c EXCEPT ![attrs] = @ + n]
    ELSE [a \in DOMAIN c \cup {attrs} |-> IF a = attrs THEN n ELSE c[a]]

Event(op, pos, arg) == [op |-> op, pos |-> pos, arg |-> arg]

(* Mutant of EndOfCycle: the loop goes on to the next query without sleep. *)
EndOfCycleNoSleep == "list"

(* main.go:148: every path through the body of the for loop of main ends   *)
(* in client.delay().                                                      *)
EndOfCycle == "delay"

(* Mutant of FirstIndex: the loop starts at the last record. *)
FirstIndexLast(listing) == Len(listing)

(* The range loop of main.go:130 starts at the first record of the slice.  *)
FirstIndex(listing) == 1

(* The range loop of main.go:130: the next record, or delay after the last. *)
AfterRecord ==
    /\ i' = i + 1
    /\ resp' = "none"
    /\ pc' = IF i + 1 <= Len(containers) THEN "loop" ELSE EndOfCycle

Running == proc = "running"

----------------------------------------------------------------------------
(* Initial state: NewClient has run (main.go:101-119, 122), init has not. *)

Init ==
    /\ env \in Envs
    /\ cfg = InitConfig(env)
    /\ pc = "init"
    /\ proc = "running"
    /\ srv = "off"
    /\ ctrCreated = FALSE
    /\ ctr = [a \in {} |-> 0]
    /\ containers = <<>>
    /\ i = 1
    /\ id = <<>>
    /\ err = FALSE
    /\ resp = "none"
    /\ events = <<>>
    /\ listed = 0
    /\ restarted = 0
    /\ scraped = [a \in {} |-> 0]

----------------------------------------------------------------------------
(* Client.init, main.go:183-204 *)

(* Mutant of ClientInitMetrics: the counter is created and not stored in   *)
(* the client.                                                             *)
ClientInitMetricsCounterNotStored ==
    /\ Running /\ pc = "init"
    /\ cfg.MetricsEnabled = "true"
    /\ srv' = "starting"
    /\ pc' = "warmup"
    /\ UNCHANGED <<env, cfg, proc, ctrCreated, ctr, containers, i, id, err, resp, events, listed, restarted, scraped>>

(* Metrics enabled and the exporter and counter are created                *)
(* (main.go:184-199): the counter gets its empty series with value 0 and   *)
(* serveMetrics is started.                                                *)
ClientInitMetrics ==
    /\ Running /\ pc = "init"
    /\ cfg.MetricsEnabled = "true"
    /\ ctrCreated' = TRUE
    /\ ctr' = CounterAdd(ctr, {}, 0)
    /\ srv' = "starting"
    /\ pc' = "warmup"
    /\ UNCHANGED <<env, cfg, proc, containers, i, id, err, resp, events, listed, restarted, scraped>>

(* Metrics enabled and prometheus.New or Counter returns an error:         *)
(* log.Fatal (main.go:186-188, 193-195).                                   *)
ClientInitFatal ==
    /\ Running /\ pc = "init"
    /\ cfg.MetricsEnabled = "true"
    /\ proc' = "fatal"
    /\ UNCHANGED <<env, cfg, pc, srv, ctrCreated, ctr, containers, i, id, err, resp, events, listed, restarted, scraped>>

(* Metrics disabled: init goes straight to its last two lines. *)
ClientInitNoMetrics ==
    /\ Running /\ pc = "init"
    /\ cfg.MetricsEnabled # "true"
    /\ pc' = "warmup"
    /\ UNCHANGED <<env, cfg, proc, srv, ctrCreated, ctr, containers, i, id, err, resp, events, listed, restarted, scraped>>

(* The end of init (main.go:202-203): the warm-up sleep of StartPeriod;    *)
(* init returns and main enters its loop.                                  *)
WarmUp ==
    /\ Running /\ pc = "warmup"
    /\ pc' = "list"
    /\ UNCHANGED <<env, cfg, proc, srv, ctrCreated, ctr, containers, i, id, err, resp, events, listed, restarted, scraped>>

----------------------------------------------------------------------------
(* Client.serveMetrics, main.go:174-181, on its own goroutine *)

ServeListen ==
    /\ Running /\ srv = "starting"
    /\ srv' = "listening"
    /\ UNCHANGED <<env, cfg, pc, proc, ctrCreated, ctr, containers, i, id, err, resp, events, listed, restarted, scraped>>

(* ListenAndServe returns an error (the port cannot be bound): log.Fatal. *)
ServeFatal ==
    /\ Running /\ srv = "starting"
    /\ proc' = "fatal"
    /\ UNCHANGED <<env, cfg, pc, srv, ctrCreated, ctr, containers, i, id, err, resp, events, listed, restarted, scraped>>

(* Mutant of Scrape: the endpoint hands out the series and starts them    *)
(* again from nothing.                                                     *)
ScrapeAndReset ==
    /\ Running /\ srv = "listening"
    /\ scraped' = ctr
    /\ ctr' = [a \in {} |-> 0]
    /\ UNCHANGED <<env, cfg, pc, proc, srv, ctrCreated, containers, i, id, err, resp, events, listed, restarted>>

(* A GET /metrics served by promhttp.Handler() (main.go:176-177): the      *)
(* response shows the series of the counter as they are; the counter is    *)
(* only read.                                                              *)
Scrape ==
    /\ Running /\ srv = "listening"
    /\ scraped' = ctr
    /\ UNCHANGED <<env, cfg, pc, proc, srv, ctrCreated, ctr, containers, i, id, err, resp, events, listed, restarted>>

----------------------------------------------------------------------------
(* Client.getContainers as called by main, main.go:126-129 and 237-264 *)

(* main.go:238-248 up to the moment the request is on the socket: the      *)
(* query is built and sent, and Get waits for the answer.                  *)
GetContainersQuery ==
    /\ Running /\ pc = "list"
    /\ events' = <<Event("GET", 0, <<BASE_URL, FILTER, Filters>>)>>
    /\ pc' = "awaitList"
    /\ UNCHANGED <<env, cfg, proc, srv, ctrCreated, ctr, containers, i, id, err, resp, listed, restarted, scraped>>

(* The answer has come and decodes (main.go:248-263): the listing is       *)
(* assigned and the range loop starts.                                     *)
GetContainersOk ==
    /\ Running /\ pc = "awaitList"
    /\ \E listing \in Listings(MaxListed - listed) :
        /\ containers' = listing
        /\ listed' = listed + Len(listing)
        /\ i' = FirstIndex(listing)
        /\ pc' = IF Len(listing) >= 1 THEN "loop" ELSE EndOfCycle
    /\ UNCHANGED <<env, cfg, proc, srv, ctrCreated, ctr, id, err, resp, events, restarted, scraped>>

(* Mutant of GetContainersFail: the error is printed and then ignored, and *)
(* the loop runs over what was decoded.                                    *)
GetContainersFailIgnored ==
    /\ Running /\ pc = "awaitList"
    /\ \E e \in ListErrors :
        events' = Append(events, Event("print", 0, <<FMT_LIST_FAILED, e>>))
    /\ \E listing \in Listings(MaxListed - listed) :
        /\ Len(listing) >= 1
        /\ containers' = listing
        /\ listed' = listed + Len(listing)
    /\ i' = 1
    /\ pc' = "loop"
    /\ UNCHANGED <<env, cfg, proc, srv, ctrCreated, ctr, id, err, resp, restarted, scraped>>

(* Get, ReadAll or Unmarshal returns an error (main.go:249-262), a timeout *)
(* of the request among them: main prints it (main.go:128) and goes to the *)
(* sleep.                                                                  *)
GetContainersFail ==
    /\ Running /\ pc = "awaitList"
    /\ \E e \in ListErrors :
        events' = Append(events, Event("print", 0, <<FMT_LIST_FAILED, e>>))
    /\ containers' = <<>>
    /\ i' = 1
    /\ pc' = EndOfCycle
    /\ UNCHANGED <<env, cfg, proc, srv, ctrCreated, ctr, id, err, resp, listed, restarted, scraped>>

(* The runtime has accepted the query and never answers.  With a positive  *)
(* request timeout the Get returns a timeout error, which is one of the    *)
(* transport errors of GetContainersFail; without one (main.go:107) the    *)
(* Get never returns.                                                      *)
GetContainersHang ==
    /\ Running /\ pc = "awaitList"
    /\ ~HasDeadline(cfg.RequestTimeout)
    /\ pc' = "blocked"
    /\ UNCHANGED <<env, cfg, proc, srv, ctrCreated, ctr, containers, i, id, err, resp, events, listed, restarted, scraped>>

----------------------------------------------------------------------------
(* The body of the range loop of main, main.go:130-146 *)

(* id := c.Id[0:12] on an id shorter than 12 bytes: run-time panic. *)
SliceIdPanic ==
    /\ Running /\ pc = "loop"
    /\ ~SliceInRange(containers[i])
    /\ proc' = "panic"
    /\ UNCHANGED <<env, cfg, pc, srv, ctrCreated, ctr, containers, i, id, err, resp, events, listed, restarted, scraped>>

SkipNoName ==
    /\ Running /\ pc = "loop"
    /\ LET c == containers[i] IN
        /\ SliceInRange(c)
        /\ NoName(c)
        /\ id' = ShortId(c)
        /\ events' = Append(events, Event("print", i, <<FMT_NONAME, ShortId(c)>>))
    /\ AfterRecord
    /\ UNCHANGED <<env, cfg, proc, srv, ctrCreated, ctr, containers, err, listed, restarted, scraped>>

(* Mutant of SkipRestarting: the state is tested before the names. *)
SkipRestartingFirst ==
    /\ Running /\ pc = "loop"
    /\ LET c == containers[i]
           name == IF Len(c.Names) = 0 THEN "" ELSE c.Names[1]
       IN
        /\ SliceInRange(c)
        /\ IsRestarting(c)
        /\ id' = ShortId(c)
        /\ events' = Append(events, Event("print", i, <<FMT_RESTARTING, name, ShortId(c)>>))
    /\ AfterRecord
    /\ UNCHANGED <<env, cfg, proc, srv, ctrCreated, ctr, containers, err, listed, restarted, scraped>>

(* main.go:139-142, reached when the test of main.go:134 has failed. *)
SkipRestarting ==
    /\ Running /\ pc = "loop"
    /\ LET c == containers[i] IN
        /\ SliceInRange(c)
        /\ ~NoName(c)
        /\ IsRestarting(c)
        /\ id' = ShortId(c)
        /\ events' = Append(events, Event("print", i, <<FMT_RESTARTING, c.Names[1], ShortId(c)>>))
    /\ AfterRecord
    /\ UNCHANGED <<env, cfg, proc, srv, ctrCreated, ctr, containers, err, listed, restarted, scraped>>

BeginRestart ==
    /\ Running /\ pc = "loop"
    /\ LET c == containers[i] IN
        /\ SliceInRange(c)
        /\ ~NoName(c)
        /\ ~IsRestarting(c)
        /\ id' = ShortId(c)
        /\ events' = Append(events, Event("print", i, <<FMT_UNHEALTHY, c.Names[1], ShortId(c)>>))
    /\ pc' = "restart"
    /\ UNCHANGED <<env, cfg, proc, srv, ctrCreated, ctr, containers, i, err, resp, listed, restarted, scraped>>

----------------------------------------------------------------------------
(* Client.restart, main.go:152-164, in its three calls *)

(* restartContainer(container.Id, container.Labels["autoheal.stop.timeout"]) *)
(* up to the moment the command is on the socket (main.go:153, 229-233):   *)
(* PostForm waits for the answer.                                          *)
RestartContainerPost ==
    /\ Running /\ pc = "restart"
    /\ LET c == containers[i] IN
        events' = Append(events,
              Event("POST", i, RestartUrl(c.Id, LabelOf(c, STOP_TIMEOUT_LABEL))))
    /\ pc' = "awaitRestart"
    /\ UNCHANGED <<env, cfg, proc, srv, ctrCreated, ctr, containers, i, id, err, resp, listed, restarted, scraped>>

(* PostForm returns (main.go:233-234), with a response or with a transport *)
(* error, a timeout of the request among them, and restart tests the error *)
(* (main.go:153).                                                          *)
RestartContainer ==
    /\ Running /\ pc = "awaitRestart"
    /\ \E res \in RestartResults :
        /\ resp' = res
        /\ err' = RestartErr(res)
    /\ restarted' = restarted + 1
    /\ pc' = "metric"
    /\ UNCHANGED <<env, cfg, proc, srv, ctrCreated, ctr, containers, i, id, events, listed, scraped>>

(* The runtime never answers the restart command and httpd has no         *)
(* deadline (main.go:107): PostForm never returns.                         *)
RestartContainerHang ==
    /\ Running /\ pc = "awaitRestart"
    /\ ~HasDeadline(cfg.RequestTimeout)
    /\ pc' = "blocked"
    /\ UNCHANGED <<env, cfg, proc, srv, ctrCreated, ctr, containers, i, id, err, resp, events, listed, restarted, scraped>>

(* addMetric(container.Names[0], <result text>), main.go:166-172.  c.ctr is *)
(* an interface value: Add on the nil value that init leaves when it does  *)
(* not create the counter is a run-time panic.                             *)
AddMetric ==
    /\ Running /\ pc = "metric"
    /\ LET key == containers[i].Names[1]
           value == ResultText(err)
       IN
        IF cfg.MetricsEnabled = "true" /\ ~ctrCreated
        THEN /\ proc' = "panic"
             /\ UNCHANGED <<pc, events, ctr>>
        ELSE /\ events' = Append(events, Event("addMetric", i, <<key, value>>))
             /\ ctr' = IF cfg.MetricsEnabled = "true"
                       THEN CounterAdd(ctr, {<<key, value>>}, 1)
                       ELSE ctr
             /\ pc' = "notify"
             /\ proc' = proc
    /\ UNCHANGED <<env, cfg, srv, ctrCreated, containers, i, id, err, resp, listed, restarted, scraped>>

(* notify(<format>, t, container.Names[0], id), main.go:210-226, and the   *)
(* caller's "Failed to call webhook" line.                                 *)
NotifyMessage == <<ResultFormat(err), containers[i].Names[1], id>>

(* Mutant of NotifyLocal: without a webhook notify returns at once and     *)
(* writes nothing.                                                         *)
NotifyLocalSilent ==
    /\ Running /\ pc = "notify"
    /\ cfg.WebHookUrl = ""
    /\ AfterRecord
    /\ UNCHANGED <<env, cfg, proc, srv, ctrCreated, ctr, containers, id, err, events, listed, restarted, scraped>>

NotifyLocal ==
    /\ Running /\ pc = "notify"
    /\ cfg.WebHookUrl = ""
    /\ events' = Append(events, Event("notify", i, NotifyMessage))
    /\ AfterRecord
    /\ UNCHANGED <<env, cfg, proc, srv, ctrCreated, ctr, containers, id, err, listed, restarted, scraped>>

(* With a webhook (main.go:211-219): the message is printed, the body is   *)
(* marshalled and the POST is sent; Post waits for the answer.  The result *)
(* of the call is not known yet.                                           *)
NotifyWebhookPost ==
    /\ Running /\ pc = "notify"
    /\ cfg.WebHookUrl # ""
    /\ LET post == Event("webhook", i, [url         |-> cfg.WebHookUrl,
                                        contentType |-> CONTENT_TYPE,
                                        key         |-> cfg.WebHookKey,
                                        message     |-> NotifyMessage,
                                        result      |-> "none"])
       IN events' = Append(Append(events, Event("notify", i, NotifyMessage)), post)
    /\ pc' = "awaitWebhook"
    /\ UNCHANGED <<env, cfg, proc, srv, ctrCreated, ctr, containers, i, id, err, resp, listed, restarted, scraped>>

(* The webhook event of the pending Post, with the result of the call. *)
Answered(res) == [events EXCEPT ![Len(events)].arg.result = res]

(* Mutant of NotifyWebhook: a webhook failure ends the cycle. *)
NotifyWebhookFailureEndsCycle ==
    /\ Running /\ pc = "awaitWebhook"
    /\ \E res \in WebhookResults :
        IF res = "transport_error"
        THEN /\ events' = Append(Answered(res), Event("print", i, <<FMT_WEBHOOK_FAILED, res>>))
             /\ i' = Len(containers) + 1
             /\ resp' = "none"
             /\ pc' = EndOfCycle
        ELSE /\ events' = Answered(res)
             /\ AfterRecord
    /\ UNCHANGED <<env, cfg, proc, srv, ctrCreated, ctr, containers, id, err, listed, restarted, scraped>>

(* Post returns (main.go:219-225), with a response or with a transport     *)
(* error, a timeout of the request among them; on an error the caller      *)
(* prints its "Failed to call webhook" line (main.go:156, 161); restart    *)
(* returns and the range loop goes on.                                     *)
NotifyWebhook ==
    /\ Running /\ pc = "awaitWebhook"
    /\ \E res \in WebhookResults :
        events' = IF res = "transport_error"
                  THEN Append(Answered(res), Event("print", i, <<FMT_WEBHOOK_FAILED, res>>))
                  ELSE Answered(res)
    /\ AfterRecord
    /\ UNCHANGED <<env, cfg, proc, srv, ctrCreated, ctr, containers, id, err, listed, restarted, scraped>>

(* The webhook never answers and httpw has no deadline (main.go:115): Post *)
(* never returns.                                                          *)
NotifyWebhookHang ==
    /\ Running /\ pc = "awaitWebhook"
    /\ ~HasDeadline(cfg.RequestTimeout)
    /\ pc' = "blocked"
    /\ UNCHANGED <<env, cfg, proc, srv, ctrCreated, ctr, containers, i, id, err, resp, events, listed, restarted, scraped>>

----------------------------------------------------------------------------
(* Client.delay, main.go:148 and 206-208: the sleep that ends every cycle.  *)
(* The iteration of the for loop of main.go:125 ends with it, and the       *)
(* locals of that iteration (containers, err, the loop's c, t and id) go    *)
(* out of scope.                                                            *)

Delay ==
    /\ Running /\ pc = "delay"
    /\ pc' = "list"
    /\ containers' = <<>>
    /\ i' = 1
    /\ id' = <<>>
    /\ err' = FALSE
    /\ resp' = "none"
    /\ events' = <<>>
    /\ UNCHANGED <<env, cfg, proc, srv, ctrCreated, ctr, listed, restarted, scraped>>

----------------------------------------------------------------------------

Next ==
    \/ ClientInitMetrics
    \/ ClientInitFatal
    \/ ClientInitNoMetrics
    \/ WarmUp
    \/ ServeListen
    \/ ServeFatal
    \/ Scrape
    \/ GetContainersQuery
    \/ GetContainersOk
    \/ GetContainersFail
    \/ GetContainersHang
    \/ SliceIdPanic
    \/ SkipNoName
    \/ SkipRestarting
    \/ BeginRestart
    \/ RestartContainerPost
    \/ RestartContainer
    \/ RestartContainerHang
    \/ AddMetric
    \/ NotifyLocal
    \/ NotifyWebhookPost
    \/ NotifyWebhook
    \/ NotifyWebhookHang
    \/ Delay

Spec == Init /\ [][Next]_vars

----------------------------------------------------------------------------
(* Configuration loading on its own: main before NewClient (main.go:122),  *)
(* in any of the environments of EnvsWide, and the call of NewClient.      *)

InitEnv ==
    /\ env \in EnvsWide
    /\ cfg = NoConfig
    /\ pc = "start"
    /\ proc = "running"
    /\ srv = "off"
    /\ ctrCreated = FALSE
    /\ ctr = [a \in {} |-> 0]
    /\ containers = <<>>
    /\ i = 1
    /\ id = <<>>
    /\ err = FALSE
    /\ resp = "none"
    /\ events = <<>>
    /\ listed = 0
    /\ restarted = 0
    /\ scraped = [a \in {} |-> 0]

(* NewClient, main.go:101-119: the configuration is read from the          *)
(* environment; nothing in it can fail.                                    *)
NewClient ==
    /\ Running /\ pc = "start"
    /\ cfg' = InitConfig(env)
    /\ pc' = "init"
    /\ UNCHANGED <<env, proc, srv, ctrCreated, ctr, containers, i, id, err, resp, events, listed, restarted, scraped>>

NextConfig == NewClient

SpecConfig == InitEnv /\ [][NextConfig]_vars

----------------------------------------------------------------------------
(* Reading the events of the current cycle *)

Records == 1 .. Len(containers)

(* The events of kind op that belong to the record at position k. *)
At(op, k) == {n \in 1 .. Len(events) : events[n].op = op /\ events[n].pos = k}

(* An Outcome is the line that reports it: the two "don't restart" lines    *)
(* of main and the two result messages handed to notify by restart.        *)
OutcomeName(fmt) ==
    CASE fmt = FMT_NONAME     -> "Skipped-NoName"
      [] fmt = FMT_RESTARTING -> "Skipped-AlreadyRestarting"
      [] fmt = FMT_SUCCESS    -> "Restarted-Success"
      [] fmt = FMT_FAILED     -> "Restarted-Failure"
      [] OTHER                -> "none"

OutcomeAt(k) ==
    {n \in 1 .. Len(events) :
        /\ events[n].pos = k
        /\ events[n].op \in {"print", "notify"}
        /\ OutcomeName(events[n].arg[1]) # "none"}

Outcomes(k) == {OutcomeName(events[n].arg[1]) : n \in OutcomeAt(k)}

(* The cycle is over: the loop has reached delay, or the process has died  *)
(* of a run-time panic in the middle of it.                                *)
CycleOver == pc = "delay" \/ proc = "panic"

(* The loop has moved past the record at position k. *)
Passed(k) == k < i

(* The record touches neither the runtime, the Notifier nor the Metrics    *)
(* Recorder.                                                               *)
NoAction(k) == At("POST", k) = {} /\ At("addMetric", k) = {} /\ At("notify", k) = {} /\ At("webhook", k) = {}

(* The records the claims speak of, read off the record itself: nameless   *)
(* (no names, or first name "null") and in state "restarting".            *)
Nameless(c) == c.Names = <<>> \/ (Len(c.Names) >= 1 /\ c.Names[1] = "null")
InStateRestarting(c) == c.State = "restarting"

(* Eligible, by the glossary: not nameless and not already restarting. *)
Eligible(c) == ~Nameless(c) /\ ~InStateRestarting(c)

(* The timeout the claims expect: the label when present and non-empty,    *)
(* else the configured default.                                            *)
ExpectedTimeout(c) ==
    IF STOP_TIMEOUT_LABEL \in DOMAIN c.Labels /\ c.Labels[STOP_TIMEOUT_LABEL] # ""
    THEN c.Labels[STOP_TIMEOUT_LABEL]
    ELSE cfg.DefaultStopTimeout

----------------------------------------------------------------------------
(* C1: when a cycle is over, every record the listing returned has exactly *)
(* one Outcome, and no record was sent more than one restart command.      *)
(* The code breaks this on a record whose Id is shorter than 12 bytes: the *)
(* slice of main.go:132 panics and that record and all later ones get no   *)
(* Outcome.                                                                *)
C1_ExactlyOneOutcome ==
    CycleOver =>
        \A k \in Records :
            /\ Cardinality(OutcomeAt(k)) = 1
            /\ Cardinality(At("POST", k)) <= 1

(* What does hold for C1: in a cycle that reaches the sleep, every record  *)
(* has exactly one Outcome and at most one restart command.                *)
C1_WhenCycleCompletes ==
    pc = "delay" =>
        \A k \in Records :
            /\ Cardinality(OutcomeAt(k)) = 1
            /\ Cardinality(At("POST", k)) <= 1

(* C2: when a cycle is over, every eligible record (not nameless, not      *)
(* restarting) has been sent exactly one restart command, addressed to its *)
(* full id, with its stop-timeout label as timeout when that label is      *)
(* present and non-empty and the configured default otherwise.             *)
(* Fails only through the panic of C1: an eligible record with a short id, *)
(* or behind one, gets no restart command.                                 *)
C2_EligibleRestartedOnce ==
    CycleOver =>
        \A k \in Records :
            Eligible(containers[k]) =>
                /\ Cardinality(At("POST", k)) = 1
                /\ \A n \in At("POST", k) :
                       events[n].arg =
                           <<BASE_URL, containers[k].Id, COMMAND, ExpectedTimeout(containers[k])>>

(* What does hold for C2: in a cycle that reaches the sleep, every         *)
(* eligible record has exactly one restart command, to its full id and     *)
(* with the expected timeout; and no other address or timeout is ever      *)
(* used.                                                                   *)
C2_WhenCycleCompletes ==
    \A k \in Records :
        /\ \A n \in At("POST", k) :
               /\ Eligible(containers[k])
               /\ events[n].arg =
                      <<BASE_URL, containers[k].Id, COMMAND, ExpectedTimeout(containers[k])>>
        /\ Cardinality(At("POST", k)) <= 1
        /\ (pc = "delay" /\ Eligible(containers[k])) => Cardinality(At("POST", k)) = 1

(* C3: when a cycle is over, every nameless record (no names, or first     *)
(* name "null") has the Outcome Skipped-NoName and has caused no restart   *)
(* command, no Notifier call and no Metrics Recorder call.                 *)
(* Fails only through the panic of C1: the id is sliced before the names   *)
(* are looked at, so a nameless record with a short id, or behind a record *)
(* with one, gets no Outcome.                                              *)
C3_NoNameSkipped ==
    CycleOver =>
        \A k \in Records :
            Nameless(containers[k]) =>
                /\ Outcomes(k) = {"Skipped-NoName"}
                /\ Cardinality(OutcomeAt(k)) = 1
                /\ NoAction(k)

(* What does hold for C3: a nameless record never causes a restart         *)
(* command, a Notifier call or a Metrics Recorder call, and once the loop  *)
(* has moved past it its one Outcome is Skipped-NoName.                    *)
C3_WhenRecordPassed ==
    \A k \in Records :
        Nameless(containers[k]) =>
            /\ NoAction(k)
            /\ Outcomes(k) \subseteq {"Skipped-NoName"}
            /\ Passed(k) => Outcomes(k) = {"Skipped-NoName"} /\ Cardinality(OutcomeAt(k)) = 1

(* C4, as stated: a record in state "restarting" is never sent a restart   *)
(* command and yields no Outcome other than Skipped-AlreadyRestarting.     *)
(* Refuted by a record that is nameless and restarting: the No-Name rule   *)
(* is evaluated first and the Outcome is Skipped-NoName.                   *)
C4_Original ==
    \A k \in Records :
        InStateRestarting(containers[k]) =>
            /\ NoAction(k)
            /\ Outcomes(k) \subseteq {"Skipped-AlreadyRestarting"}

(* C4, amended: a record in state "restarting" is never sent a restart     *)
(* command and causes no Notifier or Metrics Recorder call; the only       *)
(* Outcome it can yield is Skipped-AlreadyRestarting when it has a name    *)
(* and Skipped-NoName when it is nameless, and once the loop has moved     *)
(* past it, it has exactly that one Outcome.                               *)
C4_RestartingSkipped ==
    \A k \in Records :
        InStateRestarting(containers[k]) =>
            LET expected == IF Nameless(containers[k])
                            THEN "Skipped-NoName"
                            ELSE "Skipped-AlreadyRestarting"
            IN  /\ NoAction(k)
                /\ Outcomes(k) \subseteq {expected}
                /\ Passed(k) => Outcomes(k) = {expected} /\ Cardinality(OutcomeAt(k)) = 1

(* C4 witness: a named record in state "restarting" has been skipped. *)
C4_Witness ==
    \E k \in Records :
        /\ InStateRestarting(containers[k]) /\ ~Nameless(containers[k])
        /\ Passed(k)
        /\ Outcomes(k) = {"Skipped-AlreadyRestarting"}

----------------------------------------------------------------------------
(* C5 *)

(* The listing query of the current cycle has failed. *)
ListFailed ==
    /\ Len(events) >= 2
    /\ events[2].op = "print" /\ events[2].pos = 0
    /\ events[2].arg[1] = FMT_LIST_FAILED

(* While the failed cycle lasts there is nothing but the query and the     *)
(* error line, the loop is at delay, and the sleep can be taken.           *)
C5_AbandonedState ==
    ListFailed =>
        /\ Len(events) = 2
        /\ containers = <<>>
        /\ pc = "delay"
        /\ proc # "panic"
        /\ Running => ENABLED Delay

(* The failing query changes no counter; the only step of the loop out of  *)
(* the failed cycle is the sleep, which leads to the next query with every *)
(* per-cycle variable back at its initial value and nothing else changed.  *)
C5_AbandonedStep ==
    /\ (pc = "awaitList" /\ ListFailed') => (ctr' = ctr /\ pc' = "delay" /\ proc' = proc)
    /\ ListFailed => ctr' = ctr
    /\ (ListFailed /\ pc' # pc) =>
            /\ pc' = "list"
            /\ containers' = <<>> /\ i' = 1 /\ id' = <<>> /\ err' = FALSE /\ events' = <<>>
            /\ cfg' = cfg /\ listed' = listed /\ proc' = proc

(* C5: a failed listing query abandons the cycle: no restart command, no   *)
(* notification and no metric increment happen in it; the loop sleeps and  *)
(* then issues the next query from the same state as after any other       *)
(* cycle; the failure never stops the loop.                                *)
C5_ListFailureAbandonsCycle ==
    /\ [](C5_AbandonedState)
    /\ [](pc = "list" /\ Running => ENABLED GetContainersQuery)
    /\ [](pc = "awaitList" /\ Running => ENABLED GetContainersOk /\ ENABLED GetContainersFail)
    /\ [][C5_AbandonedStep]_vars

(* C5 witness: a listing query has failed in a cycle that follows one in   *)
(* which a container was restarted.                                        *)
C5_Witness ==
    /\ ListFailed /\ pc = "delay"
    /\ listed >= 1
    /\ \E a \in DOMAIN ctr : ctr[a] >= 1

----------------------------------------------------------------------------
(* C6 *)

ExpectedOutcome(res) ==
    IF res = "transport_error" THEN "Restarted-Failure" ELSE "Restarted-Success"

(* While a restart is being reported, restart holds an error exactly when  *)
(* the runtime's answer was a transport error.                             *)
C6_ErrIffTransportError ==
    pc \in {"metric", "notify", "awaitWebhook"} =>
        /\ resp \in RestartResults
        /\ err <=> resp = "transport_error"

(* The step that ends the handling of a restarted record leaves it with    *)
(* the one Outcome that the runtime's answer calls for.                    *)
C6_OutcomeStep ==
    (pc \in {"notify", "awaitWebhook"} /\ i' = i + 1) =>
        \A k \in {i} : \A res \in {resp} :
            Outcomes(k)' = {ExpectedOutcome(res)}

(* C6: the Outcome of a restart command is Restarted-Failure exactly when  *)
(* the transport returned an error; every completed exchange, whatever its *)
(* status code, gives Restarted-Success.                                   *)
C6_FailureIffTransportError ==
    /\ [](C6_ErrIffTransportError)
    /\ [][C6_OutcomeStep]_vars

(* C6 witness: a restart command answered with a 4xx or 5xx status has     *)
(* been recorded as a success.                                             *)
C6_Witness ==
    /\ pc = "notify"
    /\ resp \in {"404", "500"}
    /\ \E n \in At("addMetric", i) : events[n].arg[2] = RESULT_SUCCESS

----------------------------------------------------------------------------
(* C7: when a cycle is over, every record that follows a failed restart    *)
(* command in the listing has been evaluated (has its Outcome) and, if     *)
(* eligible, has been sent its own restart command.                        *)
(* The failure itself never ends the cycle; the statement fails only       *)
(* through the panic of C1, on a later record with a short id.             *)
C7_FailureDoesNotAbort ==
    CycleOver =>
        \A k \in Records :
            "Restarted-Failure" \in Outcomes(k) =>
                \A m \in Records :
                    m > k =>
                        /\ Cardinality(OutcomeAt(m)) = 1
                        /\ Eligible(containers[m]) => Cardinality(At("POST", m)) = 1

(* What does hold for C7: the step that ends the handling of a failed      *)
(* restart moves the loop on to the next record, or to the sleep after the *)
(* last one, exactly as after a successful restart; and in a cycle that    *)
(* reaches the sleep every record behind a failed restart has its Outcome  *)
(* and, if eligible, its restart command.                                  *)
C7_WhenCycleCompletes ==
    /\ [](pc = "delay" =>
            \A k \in Records :
                "Restarted-Failure" \in Outcomes(k) =>
                    \A m \in Records :
                        m > k =>
                            /\ Cardinality(OutcomeAt(m)) = 1
                            /\ Eligible(containers[m]) => Cardinality(At("POST", m)) = 1)
    /\ [][(pc \in {"notify", "awaitWebhook"} /\ pc' \notin {"notify", "awaitWebhook", "blocked"}) =>
            /\ i' = i + 1 /\ containers' = containers
            /\ pc' = IF i < Len(containers) THEN "loop" ELSE "delay"]_vars

----------------------------------------------------------------------------
(* C8 *)

ExpectedText(res) ==
    IF res = "transport_error" THEN RESULT_FAILED ELSE RESULT_SUCCESS

(* C8: a record whose restart command has returned causes exactly one      *)
(* Metrics Recorder call and exactly one Notifier call, both with the      *)
(* record's first name and the result text of its Outcome (the failure     *)
(* text exactly when the command ended in a transport error); a record     *)
(* that was skipped causes neither.                                        *)
C8_RestartedReported ==
    \A k \in Records :
        /\ Cardinality(At("addMetric", k)) <= 1
        /\ Cardinality(At("notify", k)) <= 1
        /\ (At("addMetric", k) # {} \/ At("notify", k) # {}) => At("POST", k) # {}
        /\ (At("POST", k) # {} /\ Passed(k)) =>
               Cardinality(At("addMetric", k)) = 1 /\ Cardinality(At("notify", k)) = 1
        /\ \A a \in At("addMetric", k) :
               /\ events[a].arg[1] = containers[k].Names[1]
               /\ events[a].arg[2] \in {RESULT_FAILED, RESULT_SUCCESS}
               /\ (k = i /\ resp # "none") => events[a].arg[2] = ExpectedText(resp)
               /\ \A n \in At("notify", k) :
                      /\ events[n].arg[2] = containers[k].Names[1]
                      /\ events[n].arg[1] =
                             (IF events[a].arg[2] = RESULT_FAILED THEN FMT_FAILED ELSE FMT_SUCCESS)
        /\ (Outcomes(k) \cap {"Skipped-NoName", "Skipped-AlreadyRestarting"} # {}) => NoAction(k)

(* C8 witness: in one cycle a restart has failed and has been reported to  *)
(* both observers, and another record has been skipped.                    *)
C8_Witness ==
    \E k, m \in Records :
        /\ Passed(k) /\ Passed(m)
        /\ \E n \in At("addMetric", k) : events[n].arg[2] = RESULT_FAILED
        /\ \E n \in At("notify", k) : events[n].arg[1] = FMT_FAILED
        /\ Outcomes(m) \cap {"Skipped-NoName", "Skipped-AlreadyRestarting"} # {}

----------------------------------------------------------------------------
(* C9 *)

(* Everything the record at k causes has happened, in the order restart    *)
(* command, metric, notification.                                          *)
Complete(k) ==
    /\ OutcomeAt(k) # {}
    /\ At("POST", k) # {} =>
        \E p \in At("POST", k), a \in At("addMetric", k), n \in At("notify", k) :
            p < a /\ a < n

(* C9: the records of a cycle are handled in listing order, one at a time: *)
(* the events of the cycle never go back to an earlier record, and when    *)
(* anything has happened for a record, every record before it is complete. *)
C9_InListOrder ==
    /\ \A n \in 1 .. Len(events) - 1 : events[n].pos <= events[n + 1].pos
    /\ \A k \in Records :
           (\E n \in 1 .. Len(events) : events[n].pos > k) => Complete(k)
    /\ \A k \in Records : Passed(k) => Complete(k)
    /\ \A n \in 1 .. Len(events) : events[n].pos <= i /\ events[n].pos <= Len(containers)

(* C9 witness: both records of a listing have been restarted. *)
C9_Witness ==
    /\ pc = "delay"
    /\ Len(containers) >= 2
    /\ At("notify", 1) # {} /\ At("notify", 2) # {}

----------------------------------------------------------------------------
(* C10 *)

(* A step in which the listing query returns. *)
QueryStep == pc = "awaitList" /\ pc' \notin {"awaitList", "blocked"}

C10_Step ==
    /\ (pc' = "list" /\ pc # "list") =>
            /\ pc \in {"warmup", "delay"}
            /\ pc = "delay" => i > Len(containers)
    /\ (pc = "list" /\ pc' # "list") =>
            /\ pc' = "awaitList"
            /\ events = <<>> /\ containers = <<>>
            /\ Len(events') = 1 /\ containers' = <<>>
    /\ QueryStep => Len(events) = 1 /\ containers = <<>>
    /\ (QueryStep /\ (ListFailed' \/ containers' = <<>>)) => pc' = "delay"
    /\ (pc \in {"loop", "notify", "awaitWebhook"}
          /\ pc' \notin {"loop", "restart", "awaitRestart", "metric", "notify", "awaitWebhook", "blocked"}) =>
            pc' = "delay"

(* C10: cycles never overlap: the position of the listing query is entered *)
(* only from init or from the sleep, the sleep is reached only when every  *)
(* record of the cycle is complete, and a cycle whose query failed or      *)
(* returned nothing goes to the sleep as well.                             *)
C10_CyclesDoNotOverlap ==
    /\ [](pc = "delay" => i > Len(containers) /\ \A k \in Records : Complete(k))
    /\ [][C10_Step]_vars

(* C10 witness: after a cycle that handled a record and the sleep, the     *)
(* loop is about to issue the next query.                                  *)
C10_Witness ==
    /\ pc = "list" /\ Running
    /\ listed >= 1
    /\ events = <<>>

----------------------------------------------------------------------------
(* C11: the only way the process ever ends is log.Fatal in the metrics     *)
(* subsystem (init's exporter and counter, serveMetrics' listener), which  *)
(* needs metrics to be enabled; whatever the runtime and the webhook       *)
(* answer, the process keeps running.                                      *)
(* The code breaks this on a listing that holds a record whose Id is       *)
(* shorter than 12 bytes: the slice of main.go:132 panics.                 *)
C11_OnlyMetricsInitTerminates ==
    proc # "running" => (proc = "fatal" /\ cfg.MetricsEnabled = "true")

(* What does hold for C11: the process dies of a panic only at the slice   *)
(* of main.go:132, on a record with an Id of fewer than 12 bytes; and      *)
(* while it runs, the loop can always take its next step.                  *)
C11_OnlyShortIdPanics ==
    /\ proc = "panic" =>
           /\ pc = "loop"
           /\ i \in Records
           /\ Len(containers[i].Id) < 12
    /\ (proc = "running" /\ pc = "loop" /\ Len(containers[i].Id) >= 12) =>
           (ENABLED SkipNoName \/ ENABLED SkipRestarting \/ ENABLED BeginRestart)
    /\ (proc = "running" /\ pc = "restart") => ENABLED RestartContainerPost
    /\ (proc = "running" /\ pc = "awaitRestart") => ENABLED RestartContainer
    /\ (proc = "running" /\ pc = "metric") => ENABLED AddMetric

----------------------------------------------------------------------------
(* C12: the runtime query, the restart command and the webhook POST always *)
(* return, whatever the configured request timeout: the loop never waits   *)
(* for ever in one call.                                                   *)
(* The code breaks this when the request timeout is zero or negative: the  *)
(* clients of main.go:106-116 then have no deadline, and a call to a peer  *)
(* that never answers never returns.                                       *)
C12_CallsAlwaysReturn ==
    pc # "blocked"

(* What does hold for C12: the loop waits for ever only with a request     *)
(* timeout that is not positive, and only in one of the three calls; with  *)
(* a positive timeout every call returns and the loop can always go on.    *)
C12_BoundedWhenTimeoutPositive ==
    /\ pc = "blocked" =>
           /\ cfg.RequestTimeout.neg \/ cfg.RequestTimeout.mag = <<0>>
           /\ Len(events) >= 1
           /\ events[Len(events)].op \in {"GET", "POST", "webhook"}
    /\ (proc = "running" /\ pc = "list") => ENABLED GetContainersQuery
    /\ (proc = "running" /\ pc = "awaitList") => ENABLED GetContainersOk /\ ENABLED GetContainersFail
    /\ (proc = "running" /\ pc = "restart") => ENABLED RestartContainerPost
    /\ (proc = "running" /\ pc = "awaitRestart") => ENABLED RestartContainer
    /\ (proc = "running" /\ pc = "notify") => ENABLED NotifyLocal \/ ENABLED NotifyWebhookPost
    /\ (proc = "running" /\ pc = "awaitWebhook") => ENABLED NotifyWebhook
    /\ (proc = "running" /\ pc = "delay") => ENABLED Delay

----------------------------------------------------------------------------
(* C13 *)

(* The webhook POST of the record at position k has failed. *)
WebhookFailed(k) ==
    \E n \in At("webhook", k) : events[n].arg.result = "transport_error"

(* A record whose webhook POST failed has its one restart command, its one *)
(* metric call, and the Outcome that its metric call was made with.        *)
C13_FailedWebhookState ==
    \A k \in Records :
        WebhookFailed(k) =>
            /\ Cardinality(At("POST", k)) = 1
            /\ Cardinality(At("addMetric", k)) = 1
            /\ Cardinality(OutcomeAt(k)) = 1
            /\ \A a \in At("addMetric", k) :
                   /\ \A p \in At("POST", k) : p < a
                   /\ \A w \in At("webhook", k) : a < w
                   /\ Outcomes(k) = {IF events[a].arg[2] = RESULT_FAILED
                                     THEN "Restarted-Failure" ELSE "Restarted-Success"}
                   /\ cfg.MetricsEnabled = "true" =>
                          /\ {events[a].arg} \in DOMAIN ctr
                          /\ ctr[{events[a].arg}] >= 1
            /\ \E n \in At("print", k) : events[n].arg[1] = FMT_WEBHOOK_FAILED

(* The step in which the webhook POST of the record at i fails leaves the  *)
(* counter as it is, adds no restart command, and moves the loop to the    *)
(* next record, or to the sleep after the last one.                        *)
C13_FailedWebhookStep ==
    (pc = "awaitWebhook" /\ \E k \in {i} : WebhookFailed(k)') =>
        /\ ctr' = ctr
        /\ proc' = proc
        /\ containers' = containers
        /\ \A k \in {i} : Cardinality(At("POST", k))' = 1
        /\ \A k \in {i} : Outcomes(k)' = {ExpectedOutcome(resp)}
        /\ \E a \in At("addMetric", i) : events[a].arg[2] = ExpectedText(resp)
        /\ i' = i + 1
        /\ pc' = IF i < Len(containers) THEN "loop" ELSE "delay"

(* C13: a webhook delivery failure changes nothing about the restart       *)
(* outcome: the metric was recorded before, with the result text of the    *)
(* Outcome, and stays; no second restart command is sent; the loop goes on *)
(* with the next record.                                                   *)
C13_WebhookFailureChangesNothing ==
    /\ [](C13_FailedWebhookState)
    /\ [][C13_FailedWebhookStep]_vars
    /\ [][\A a \in DOMAIN ctr : a \in DOMAIN ctr' /\ ctr'[a] >= ctr[a]]_vars

(* C13 witness: the webhook POST of the first record failed after a        *)
(* successful restart, and the second record has been restarted too.       *)
C13_Witness ==
    /\ Len(containers) >= 2
    /\ WebhookFailed(1)
    /\ Outcomes(1) = {"Restarted-Success"}
    /\ At("POST", 2) # {} /\ Passed(2)

----------------------------------------------------------------------------
(* C14: every call of notify writes its message to standard output; it     *)
(* sends a POST exactly when the webhook URL is not empty, one POST per    *)
(* call, to that URL, as application/json, with the same message under the *)
(* configured key; with no webhook URL it sends nothing and returns no     *)
(* error.  The caller prints "Failed to call webhook" exactly when the     *)
(* POST ended in a transport error.                                        *)
C14_NotifyContract ==
    /\ \A k \in Records :
           /\ (Passed(k) /\ At("addMetric", k) # {}) => Cardinality(At("notify", k)) = 1
           /\ Cardinality(At("webhook", k)) =
                  (IF cfg.WebHookUrl = "" THEN 0 ELSE Cardinality(At("notify", k)))
           /\ cfg.WebHookUrl = "" =>
                  \A n \in At("print", k) : events[n].arg[1] # FMT_WEBHOOK_FAILED
    /\ \A n \in 1 .. Len(events) :
           /\ (events[n].op = "notify" /\ cfg.WebHookUrl # "") =>
                  /\ n < Len(events)
                  /\ events[n + 1].op = "webhook"
           /\ events[n].op = "webhook" =>
                  /\ n > 1
                  /\ events[n - 1].op = "notify"
                  /\ events[n - 1].pos = events[n].pos
                  /\ events[n].arg.message = events[n - 1].arg
                  /\ events[n].arg.key = cfg.WebHookKey
                  /\ events[n].arg.url = cfg.WebHookUrl
                  /\ events[n].arg.contentType = "application/json"
                  /\ cfg.WebHookUrl # ""
                  /\ (events[n].arg.result = "transport_error") <=>
                         (/\ n < Len(events)
                          /\ events[n + 1].op = "print"
                          /\ events[n + 1].arg[1] = FMT_WEBHOOK_FAILED)
           /\ (events[n].op = "print" /\ events[n].arg[1] = FMT_WEBHOOK_FAILED) =>
                  /\ n > 1
                  /\ events[n - 1].op = "webhook"

(* C14 witness: with a webhook configured, the message of a restarted      *)
(* record has been written and delivered.                                  *)
C14_Witness ==
    /\ cfg.WebHookUrl # ""
    /\ \E k \in Records :
           /\ Passed(k)
           /\ At("notify", k) # {}
           /\ \E n \in At("webhook", k) : events[n].arg.result = "200"

----------------------------------------------------------------------------
(* C15 *)

RECURSIVE TotalOver(_, _)
TotalOver(c, S) ==
    IF S = {} THEN 0
    ELSE LET a == CHOOSE x \in S : TRUE
         IN  c[a] + TotalOver(c, S \ {a})

(* The sum of all series of the counter. *)
CounterTotal == TotalOver(ctr, DOMAIN ctr)

(* With metrics disabled the counter never gets a series.  With metrics    *)
(* enabled its total is the number of restart commands that have returned, *)
(* less the one whose metric call is about to be made.                     *)
C15_TotalIsRestarts ==
    /\ cfg.MetricsEnabled # "true" => DOMAIN ctr = {}
    /\ cfg.MetricsEnabled = "true" =>
           CounterTotal = (IF pc = "metric" THEN restarted - 1 ELSE restarted)
    /\ \A a \in DOMAIN ctr : ctr[a] >= 0

(* A call of addMetric changes nothing with metrics disabled, and with     *)
(* metrics enabled adds exactly 1 to the series of the record's first name *)
(* and the result text, and nothing to any other series.                   *)
C15_AddMetricStep ==
    (pc = "metric" /\ pc' = "notify") =>
        IF cfg.MetricsEnabled # "true"
        THEN ctr' = ctr
        ELSE LET series == {<<containers[i].Names[1], ExpectedText(resp)>>}
             IN  /\ DOMAIN ctr' = DOMAIN ctr \cup {series}
                 /\ \A a \in DOMAIN ctr' :
                        ctr'[a] = (IF a \in DOMAIN ctr THEN ctr[a] ELSE 0)
                                  + (IF a = series THEN 1 ELSE 0)

(* No step lowers or removes a series, and only a call of addMetric (or    *)
(* the creation of the counter in init) changes the counter at all.        *)
C15_NeverDecreases ==
    /\ \A a \in DOMAIN ctr : a \in DOMAIN ctr' /\ ctr'[a] >= ctr[a]
    /\ ctr' # ctr => pc \in {"init", "metric"}

(* C15: addMetric is a no-op with metrics disabled; with metrics enabled   *)
(* each call adds exactly 1 to the series of its container name and result *)
(* text; nothing ever lowers or resets a series; so at the end of every    *)
(* cycle the counter total is the number of restart commands that have     *)
(* returned, with an error or without.                                     *)
C15_CounterCountsRestarts ==
    /\ [](C15_TotalIsRestarts)
    /\ [][C15_AddMetricStep]_vars
    /\ [][C15_NeverDecreases]_vars

(* C15 witness: after two restart commands for the same name with the same *)
(* result the series stands at 2.                                          *)
C15_Witness ==
    /\ cfg.MetricsEnabled = "true"
    /\ pc = "delay"
    /\ restarted = 2
    /\ \E a \in DOMAIN ctr : ctr[a] = 2

----------------------------------------------------------------------------
(* C16: every cycle starts with one listing query, to                      *)
(* BASE_URL + "json?filters=" + the filter object; the filter object has   *)
(* health: ["unhealthy"], has label: ["<filter>=true"] exactly when the    *)
(* configured label filter is not "all", and has no other key.  The loop   *)
(* does not look at the labels of the records for the filter: a record     *)
(* that does not carry the filter label is handled like any other.         *)
C16_ListingFilter ==
    /\ \A n \in 1 .. Len(events) :
           (events[n].op = "GET") <=> (n = 1)
    /\ \A n \in At("GET", 0) :
           /\ Len(events[n].arg) = 3
           /\ events[n].arg[1] = "http://unix/containers/"
           /\ events[n].arg[2] = "json?filters="
           /\ LET f == events[n].arg[3]
              IN  /\ "health" \in DOMAIN f
                  /\ f.health = <<"unhealthy">>
                  /\ ("label" \in DOMAIN f) <=> (cfg.ContainerLabel # "all")
                  /\ "label" \in DOMAIN f => f.label = << <<cfg.ContainerLabel, "=true">> >>
                  /\ DOMAIN f \subseteq {"health", "label"}
    /\ \A k \in Records :
           (Passed(k) /\ cfg.ContainerLabel \notin DOMAIN containers[k].Labels) =>
               /\ Cardinality(OutcomeAt(k)) = 1
               /\ Eligible(containers[k]) => Cardinality(At("POST", k)) = 1

(* C16 witness: under the label filter "critical" the query asked for      *)
(* critical=true, and a returned record without that label was restarted.  *)
C16_Witness ==
    /\ cfg.ContainerLabel = "critical"
    /\ \E n \in At("GET", 0) : events[n].arg[3].label = << <<"critical", "=true">> >>
    /\ \E k \in Records :
           /\ Passed(k)
           /\ "critical" \notin DOMAIN containers[k].Labels
           /\ At("POST", k) # {}

----------------------------------------------------------------------------
(* C17 *)

(* The server exists only with metrics enabled and only once init has      *)
(* started it; the loop does not wait for it: wherever the loop stands it  *)
(* can take its next step, with the server still starting or listening;    *)
(* and what the endpoint has shown never exceeds the counter.              *)
C17_ServerState ==
    /\ srv # "off" => (cfg.MetricsEnabled = "true" /\ pc # "init" /\ ctrCreated)
    /\ cfg.MetricsEnabled # "true" => srv = "off"
    /\ (proc = "running" /\ pc = "list") => ENABLED GetContainersQuery
    /\ (proc = "running" /\ pc = "awaitList") => ENABLED GetContainersOk
    /\ (proc = "running" /\ pc = "restart") => ENABLED RestartContainerPost
    /\ (proc = "running" /\ pc = "awaitRestart") => ENABLED RestartContainer
    /\ (proc = "running" /\ pc = "metric") => ENABLED AddMetric
    /\ (proc = "running" /\ pc = "delay") => ENABLED Delay
    /\ \A a \in DOMAIN scraped : a \in DOMAIN ctr /\ scraped[a] <= ctr[a]
    /\ cfg.MetricsEnabled = "true" =>
           CounterTotal + (IF pc = "metric" THEN 1 ELSE 0) = restarted

(* The server is started by init alone, once, and never started again; a   *)
(* step of the server (listen, serve a request) changes nothing of the     *)
(* loop and leaves the counter as it is; an increment made while the       *)
(* server runs adds exactly one to the counter.                            *)
C17_ServerStep ==
    /\ srv' # srv =>
           \/ srv = "off" /\ srv' = "starting" /\ pc = "init" /\ pc' # "init"
           \/ srv = "starting" /\ srv' = "listening" /\ pc' = pc
    /\ (srv' # srv /\ srv # "off") \/ scraped' # scraped =>
           /\ ctr' = ctr
           /\ <<pc, containers, i, id, err, resp, events, listed, restarted>>'
                  = <<pc, containers, i, id, err, resp, events, listed, restarted>>
    /\ scraped' # scraped => (srv = "listening" /\ scraped' = ctr)
    /\ (pc = "metric" /\ pc' = "notify" /\ srv # "off") =>
           TotalOver(ctr', DOMAIN ctr') = CounterTotal + 1

(* C17: the metrics server is started at most once, by init, and only with *)
(* metrics enabled; it runs beside the loop, which never waits for it; and *)
(* however its reads fall between the increments of the loop, no increment *)
(* is lost.                                                                *)
C17_ServerBesideLoop ==
    /\ [](C17_ServerState)
    /\ [][C17_ServerStep]_vars

(* C17 witness: the endpoint was read between two increments: its last     *)
(* response shows one restart, the counter two; and the loop got that far  *)
(* while the server was running.                                           *)
C17_Witness ==
    /\ srv = "listening"
    /\ TotalOver(scraped, DOMAIN scraped) = 1
    /\ CounterTotal = 2
    /\ restarted = 2

----------------------------------------------------------------------------
(* C18 *)

(* The defaults of the options as the specification documents them; the    *)
(* durations in seconds.                                                   *)
DocumentedDefault(name) ==
    CASE name = "DOCKER_SOCK"                   -> "/var/run/docker.sock"
      [] name = "AUTOHEAL_CONTAINER_LABEL"      -> "all"
      [] name = "AUTOHEAL_INTERVAL"             -> <<5>>
      [] name = "AUTOHEAL_START_PERIOD"         -> <<0>>
      [] name = "AUTOHEAL_DEFAULT_STOP_TIMEOUT" -> "10"
      [] name = "CURL_TIMEOUT"                  -> <<3, 0>>
      [] name = "WEBHOOK_URL"                   -> ""
      [] name = "WEBHOOK_KEY"                   -> "text"
      [] name = "METRICS_PORT"                  -> "2333"
      [] name = "METRICS_ENABLED"               -> "true"

(* The field of the configuration that holds an option. *)
FieldOf(name) ==
    CASE name = "DOCKER_SOCK"                   -> cfg.DockerSocks
      [] name = "AUTOHEAL_CONTAINER_LABEL"      -> cfg.ContainerLabel
      [] name = "AUTOHEAL_INTERVAL"             -> cfg.Interval
      [] name = "AUTOHEAL_START_PERIOD"         -> cfg.StartPeriod
      [] name = "AUTOHEAL_DEFAULT_STOP_TIMEOUT" -> cfg.DefaultStopTimeout
      [] name = "CURL_TIMEOUT"                  -> cfg.RequestTimeout
      [] name = "WEBHOOK_URL"                   -> cfg.WebHookUrl
      [] name = "WEBHOOK_KEY"                   -> cfg.WebHookKey
      [] name = "METRICS_PORT"                  -> cfg.MetricsPort
      [] name = "METRICS_ENABLED"               -> cfg.MetricsEnabled

(* The integer that a text of the environments denotes, as sign and        *)
(* digits; "9223372036854775808" is 2^63, which is no int of the program,  *)
(* and counts with "abc" as a text that does not parse.                    *)
ParsesAsInteger(text) ==
    text \in {"0", "7", "007", "-5", "9223372036", "9223372037"}

IntegerOf(text) ==
    CASE text = "0"   -> [neg |-> FALSE, mag |-> <<0>>]
      [] text = "7"   -> [neg |-> FALSE, mag |-> <<7>>]
      [] text = "007" -> [neg |-> FALSE, mag |-> <<7>>]
      [] text = "-5"  -> [neg |-> TRUE,  mag |-> <<5>>]
      [] text = "9223372036" -> [neg |-> FALSE, mag |-> <<9,2,2,3,3,7,2,0,3,6>>]
      [] text = "9223372037" -> [neg |-> FALSE, mag |-> <<9,2,2,3,3,7,2,0,3,7>>]

(* That many seconds, in the nanoseconds of a duration. *)
SecondsExactly(n) ==
    IF n.mag = <<0>> THEN [neg |-> FALSE, mag |-> <<0>>]
    ELSE [neg |-> n.neg, mag |-> n.mag \o <<0, 0, 0, 0, 0, 0, 0, 0, 0>>]

(* What the claim expects in the field of an option. *)
ExpectedField(name) ==
    LET set  == name \in DOMAIN env
        text == IF set THEN env[name] ELSE ""
    IN  IF name \in DurationNames
        THEN IF set /\ text # "" /\ ParsesAsInteger(text)
             THEN SecondsExactly(IntegerOf(text))
             ELSE SecondsExactly([neg |-> FALSE, mag |-> DocumentedDefault(name)])
        ELSE IF set /\ text # "" THEN text ELSE DocumentedDefault(name)

ConfigLoaded == pc = "init" /\ proc = "running"

(* C18: loading the configuration never fails the process; an option that  *)
(* is absent or empty has its documented default; a duration option whose  *)
(* value does not parse as an integer has its default too, and one whose   *)
(* value parses is that many seconds.                                      *)
(* The code breaks this on a value of more than 9223372036 seconds: the    *)
(* multiplication by time.Second of main.go:72 overflows the 64 bits of    *)
(* time.Duration.                                                          *)
C18_ConfigLoading ==
    /\ pc # "start" => ConfigLoaded
    /\ ConfigLoaded =>
           \A name \in DurationNames \cup StringNames : FieldOf(name) = ExpectedField(name)

(* The number of seconds fits a duration: at most 9223372036. *)
FitsDuration(text) == text # "9223372037"

(* What does hold for C18: the same, for the values whose seconds fit the  *)
(* 64 bits of a duration; and loading never fails.                         *)
C18_WithinDurationRange ==
    /\ pc # "start" => ConfigLoaded
    /\ ConfigLoaded =>
           \A name \in DurationNames \cup StringNames :
               (name \in DurationNames /\ name \in DOMAIN env => FitsDuration(env[name])) =>
                   FieldOf(name) = ExpectedField(name)

----------------------------------------------------------------------------
(* C19 *)

(* The Outcomes that the rules, taken in their order, allow for a record. *)
FirstMatch(c) ==
    IF Nameless(c) THEN {"Skipped-NoName"}
    ELSE IF InStateRestarting(c) THEN {"Skipped-AlreadyRestarting"}
    ELSE {"Restarted-Success", "Restarted-Failure"}

(* C19: the rules No-Name, Already-Restarting, Eligible are tried in that  *)
(* order and the first that matches decides: the Outcome of a record is    *)
(* the one of the first rule it matches, and a record that is nameless and *)
(* restarting is Skipped-NoName, never Skipped-AlreadyRestarting.          *)
C19_FirstMatchWins ==
    \A k \in Records :
        /\ Outcomes(k) \subseteq FirstMatch(containers[k])
        /\ Passed(k) =>
               /\ Cardinality(OutcomeAt(k)) = 1
               /\ Outcomes(k) # {}
        /\ (Nameless(containers[k]) /\ InStateRestarting(containers[k])) =>
               /\ "Skipped-AlreadyRestarting" \notin Outcomes(k)
               /\ Passed(k) => Outcomes(k) = {"Skipped-NoName"}

(* C19 witness: a record that is nameless and restarting has been skipped  *)
(* for having no name.                                                     *)
C19_Witness ==
    \E k \in Records :
        /\ Nameless(containers[k]) /\ InStateRestarting(containers[k])
        /\ Passed(k)
        /\ Outcomes(k) = {"Skipped-NoName"}

----------------------------------------------------------------------------
(* C20 *)

(* Until init has finished nothing of the loop has happened; once init has *)
(* passed its metrics part, the counter exists and the server has been     *)
(* started exactly when metrics are enabled; and addMetric never finds the *)
(* counter missing.                                                        *)
C20_InitState ==
    /\ pc \in {"init", "warmup"} =>
           /\ events = <<>> /\ containers = <<>>
           /\ listed = 0 /\ restarted = 0
    /\ pc # "init" =>
           /\ ctrCreated <=> cfg.MetricsEnabled = "true"
           /\ srv # "off" <=> cfg.MetricsEnabled = "true"
    /\ pc = "init" => ~ctrCreated /\ srv = "off"
    /\ (pc = "metric" /\ cfg.MetricsEnabled = "true") => ctrCreated
    /\ proc = "panic" => pc # "metric"

(* The loop is entered only from the warm-up sleep, the warm-up sleep only *)
(* from the metrics part of init, and the first query is issued from the   *)
(* loop; every increment of the counter finds it created.                  *)
C20_InitStep ==
    /\ (pc' = "list" /\ pc # "list") => pc \in {"warmup", "delay"}
    /\ (pc' = "warmup" /\ pc # "warmup") => pc = "init"
    /\ pc' # "init" \/ pc = "init"
    /\ (events = <<>> /\ events' # <<>>) =>
           /\ pc = "list"
           /\ events'[1].op = "GET"
           /\ cfg.MetricsEnabled = "true" => (ctrCreated /\ srv # "off")
    /\ ctr' # ctr => (ctrCreated' /\ cfg.MetricsEnabled = "true")

(* C20: the first listing query is issued only after init has finished:    *)
(* after the counter was created and the metrics server started, when      *)
(* metrics are enabled, and after the warm-up sleep; and addMetric never   *)
(* uses a counter that was not created, as init creates it under the       *)
(* condition that guards the increment.                                    *)
C20_StartupOrder ==
    /\ [](C20_InitState)
    /\ [][C20_InitStep]_vars

(* C20 witness: with metrics enabled, the loop has run through init and    *)
(* the warm-up sleep and has made its first increment of the counter.      *)
C20_Witness ==
    /\ cfg.MetricsEnabled = "true"
    /\ ctrCreated
    /\ pc = "notify"
    /\ restarted = 1
    /\ CounterTotal = 1

====
